---- MODULE Spec2Model ----
(***************************************************************************)
(* Vec-Doc backend: document expiry alerts.                                *)
(*                                                                         *)
(*   - DocumentService (create / update / delete, generateAlerts)          *)
(*   - the alert processor (startAlertProcessor / processDocumentAlerts)   *)
(*   - PUT /notifications/settings                                         *)
(*   - BikeService (create / update / odometer, calculateOilChangeStatus)  *)
(*                                                                         *)
(* Time is counted in minutes of local time since local midnight of day 0. *)
(* A JavaScript Date d is the integer d; its calendar day is d \div 1440   *)
(* and its time of day d % 1440 (no daylight-saving shifts).               *)
(***************************************************************************)
EXTENDS Integers, Sequences, FiniteSets, Bags, TLC

----------------------------------------------------------------------------
(* Bounds of the model *)

\* number of document ids the service hands out
MaxDocs == 2
\* largest calendar day of an expiry date sent to create/update
MaxExpiryDay == 1
\* Spec: number of environment events in one behaviour (a clock advance, a
\* failing store call, a document request, a PUT /settings)
MaxEvents == 4
\* SpecEdit: the same count, for the shorter runs
EditEvents == 3
\* SpecRetry: clock advances, failing store calls, document requests, PUT /settings
RetryAdvance == 3
RetryFaults == 3
RetryRequests == 1
RetryPuts == 1
\* SpecUser: the same count
UserEvents == 3
\* SpecSlow: clock advances, failing store calls, document requests, PUT /settings
SlowAdvance == 2
SlowFaults == 1
SlowRequests == 1
SlowPuts == 2
\* SpecOverlap: clock advances, failing store calls, document requests, PUT /settings
OverlapAdvance == 2
OverlapFaults == 2
OverlapRequests == 1
OverlapPuts == 1
\* SpecNotify: clock advances, failing store calls, and the calendar day of
\* the document's expiry date
NotifyAdvance == 4
NotifyFaults == 1
NotifyExpiryDay == 31
\* SpecCron: firings of the schedule after the start, failing store calls
CronFirings == 2
CronFaults == 2
\* SpecAttempts: firings of the schedule, failing store calls
AttemptFirings == 6
AttemptFaults == 5
\* SpecFleet: bikes one user creates, and bike-service calls in one behaviour
MaxBikes == 4
FleetOps == 6
\* calendar day of "now" in the schedule-generation specification
GenNowDay == 1
\* largest calendar day of an expiry date in the schedule-generation specification
GenMaxExpiryDay == 33
\* calendar day of "now" in the quiet-hours specification
QuietDay == 1
\* SpecBike: number of bike-service calls after the bike was created
BikeOps == 2

----------------------------------------------------------------------------
(* Program constants *)

MinutesPerDay == 24 * 60
\* cron '*/5 * * * *'
TickMinutes == 5
\* findMany ... take: 100
BatchSize == 100
\* alertDate.setHours(9, 0, 0, 0)
AlertHour == 9
\* if (newRetryCount >= 3)
MaxRetries == 3
\* Math.pow(5, newRetryCount)
BackoffBase == 5
\* the process starts at 08:55 of day 0
\* calculateOilChangeStatus: at most this many km left is 'due_soon'
DueSoonKm == 250
\* BikeService.create: oilChangeIntervalKm of a body that has none
DefaultIntervalKm == 2500
\* a property a request body does not have (undefined)
Absent == 0 - 1
\* odometer readings (km) sent in request bodies
OilKms == {0, 100, 2400, 2500, 2600, 5000}
\* oilChangeIntervalKm values that pass isInt({ min: 500, max: 20000 })
OilIntervals == {500, 2500}
StartClocks == {8 * 60 + 55}

\* null
NoDate == 0 - 1000000
NoError == "none"
\* no row: the table holds << >> for the user, or << row >>
NoSettings == << >>
NoQuiet == <<>>

\* expiry dates a client sends: midnight of a day
ExpiryDates == {d * MinutesPerDay : d \in 0..MaxExpiryDay}
\* "HH:MM" values a client sends for quiet hours, parsed
QuietTimes == {<<9, 0>>}
\* quiet-hours specification: the calendar day of now, the times of day of now
\* and the "HH:MM" values of the window
QuietNowTimes == {0, 2 * 60, 6 * 60, 6 * 60 + 1, 9 * 60, 10 * 60, 12 * 60, 17 * 60,
                  20 * 60, 22 * 60, 23 * 60 + 30, 23 * 60 + 55, 23 * 60 + 59}
QuietWindowTimes == {<<0, 0>>, <<0, 1>>, <<6, 0>>, <<9, 0>>, <<17, 0>>, <<22, 0>>,
                     <<23, 57>>, <<23, 59>>}
\* quiet-hours windows of the long-run specification: (start, end)
LiveWindows == {<< <<22, 0>>, <<6, 0>> >>, << <<9, 0>>, <<17, 0>> >>,
                << <<8, 0>>, <<23, 57>> >>, << <<0, 0>>, <<23, 57>> >>,
                << <<0, 0>>, <<23, 59>> >>, << <<0, 1>>, <<0, 0>> >>}
\* times of day tried by the schedule-generation specification
GenTimesOfDay == {0, 1, 8 * 60 + 59, 9 * 60, 9 * 60 + 1, 23 * 60 + 59}

\* bikes of the documents of the notification specification
NotifyBikes == {"b1", "b2"}
Users == {"u1"}
Bikes == {"b1"}
Docs == 1..MaxDocs
Ticks == {"t1", "t2"}
Reqs == {"r1", "r2"}

----------------------------------------------------------------------------
(* Date arithmetic *)

DayOf(t) == t \div MinutesPerDay
TimeOfDay(t) == t % MinutesPerDay

\* d.setDate(d.getDate() + n)
AddDays(t, n) == t + n * MinutesPerDay

\* d.setHours(h, m, 0, 0); m may be 60 (endMinute + 1), which carries
SetHours(t, h, m) == DayOf(t) * MinutesPerDay + h * 60 + m

RECURSIVE Pow(_, _)
Pow(b, e) == IF e = 0 THEN 1 ELSE b * Pow(b, e - 1)

----------------------------------------------------------------------------
(* DocumentService.generateAlerts *)

alertConfigs ==
    << [alertType |-> "30_day", daysBefore |-> 30],
       [alertType |-> "7_day", daysBefore |-> 7],
       [alertType |-> "1_day", daysBefore |-> 1],
       [alertType |-> "expired", daysBefore |-> 0] >>

AlertTypes == {alertConfigs[i].alertType : i \in DOMAIN alertConfigs}

\* faulty variant: the fire time keeps the expiry date's time of day (no setHours)
AlertDate_NoNineAM(expiryDate, daysBefore) ==
    AddDays(expiryDate, 0 - daysBefore)

\* faulty variant: the days are added to the expiry date, not subtracted
AlertDate_DaysAfter(expiryDate, daysBefore) ==
    SetHours(AddDays(expiryDate, daysBefore), AlertHour, 0)

\* alertDate = expiryDate - daysBefore days, at 09:00
AlertDate(expiryDate, daysBefore) ==
    SetHours(AddDays(expiryDate, 0 - daysBefore), AlertHour, 0)

\* faulty variant: the ladder stops before the "expired" rung
LadderConfigs_NoExpired ==
    SubSeq(alertConfigs, 1, 3)

LadderConfigs ==
    alertConfigs

\* faulty variant: a fire time equal to now is kept
IsFuture_OrNow(alertDate, now) ==
    alertDate >= now

\* if (alertDate > now)
IsFuture(alertDate, now) ==
    alertDate > now

RECURSIVE PlanFrom(_, _, _)
PlanFrom(i, expiryDate, now) ==
    IF i > Len(LadderConfigs) THEN << >>
    ELSE LET config == LadderConfigs[i]
             alertDate == AlertDate(expiryDate, config.daysBefore)
             rest == PlanFrom(i + 1, expiryDate, now)
         IN  IF IsFuture(alertDate, now)
             THEN << [alertType |-> config.alertType, scheduledAt |-> alertDate] >> \o rest
             ELSE rest

\* the `alerts` array built by generateAlerts, in push order
GenerateAlerts(expiryDate, now) ==
    IF expiryDate = NoDate THEN << >> ELSE PlanFrom(1, expiryDate, now)

----------------------------------------------------------------------------
VARIABLES
    clock,              \* wall clock, minutes
    documents,          \* documents table: id -> row
    alerts,             \* document_alerts table: id -> row (deleted rows leave the domain)
    nextAlertId,        \* ids handed out so far + 1
    settings,           \* notification_settings table: userId -> row or NoSettings
    notificationQueue,  \* notification_queue table, a bag of rows
    tick,               \* the running processDocumentAlerts calls
    req,                \* the running DocumentService requests
    budget,             \* what the environment may still do, and whether calls overlap
    genNow, genExpiry, genAlerts, genDone,  \* one generateAlerts call on its own
    call                \* one call of another function on its own: arguments and result

vars == << clock, documents, alerts, nextAlertId, settings, notificationQueue,
           tick, req, budget, genNow, genExpiry, genAlerts, genDone, call >>

sysVars == << clock, documents, alerts, nextAlertId, settings, notificationQueue,
              tick, req, budget >>
genVars == << genNow, genExpiry, genAlerts, genDone, call >>

----------------------------------------------------------------------------
(* Rows and helpers *)

Merge(row, changes) ==
    [f \in DOMAIN row |-> IF f \in DOMAIN changes THEN changes[f] ELSE row[f]]

Min(a, b) == IF a < b THEN a ELSE b

\* prisma.documentAlert.createMany({ data: alerts }): schema defaults fill the rest
NewAlertRow(documentId, userId, plan) ==
    [documentId |-> documentId, userId |-> userId,
     alertType |-> plan.alertType, scheduledAt |-> plan.scheduledAt,
     status |-> "pending", retryCount |-> 0, lastError |-> NoError,
     sentAt |-> NoDate]

CreateMany(store, firstId, documentId, userId, plans) ==
    [a \in DOMAIN store \cup {firstId + i - 1 : i \in DOMAIN plans} |->
        IF a \in DOMAIN store THEN store[a]
        ELSE NewAlertRow(documentId, userId, plans[a - firstId + 1])]

PendingOf(store, documentId) ==
    {a \in DOMAIN store :
        store[a].documentId = documentId /\ store[a].status = "pending"}

IdleTick ==
    [pc |-> "idle", now |-> 0, batch |-> << >>, idx |-> 0, next |-> 0,
     fired |-> {}]

\* processDocumentAlerts has thrown: at the batch query (idx = 0) or inside the
\* loop, at alert idx of the batch
Thrown(t) ==
    [t EXCEPT !.pc = "threw"]

\* no function is called on its own
NoCall == [op |-> "none", done |-> FALSE]

IdleReq ==
    [pc |-> "idle", documentId |-> 0, expiryDate |-> NoDate, cancelled |-> {}]

Active(p) == tick[p].pc # "idle"

\* the alert the loop of tick p is at
Cur(p) == tick[p].batch[tick[p].idx]

\* a budget that is not limited
NoLimit == 0 - 1
Left(n) == n = NoLimit \/ n > 0
Less(n) == IF n = NoLimit THEN n ELSE n - 1

\* which store calls may fail in the next step
Outcomes == IF Left(budget.faults) /\ Left(budget.events) THEN {TRUE, FALSE} ELSE {TRUE}
Spend(ok) ==
    IF ok THEN budget ELSE [budget EXCEPT !.faults = Less(@), !.events = Less(@)]

RECURSIVE CopiesOf(_, _)
CopiesOf(entries, bag) ==
    IF entries = {} THEN 0
    ELSE LET e == CHOOSE x \in entries : TRUE
         IN  CopiesIn(e, bag) + CopiesOf(entries \ {e}, bag)

\* number of notification-queue rows created for alert a
QueueCount(a) ==
    CopiesOf({e \in BagToSet(notificationQueue) : e.alertId = a}, notificationQueue)

----------------------------------------------------------------------------
\* events: how many more events the environment makes in all; advance, faults,
\* requests, puts: how many more clock advances, failing store calls, document
\* requests and settings requests; overlap: whether a second tick or request
\* may start while one is running
Scenario(events, advance, faults, requests, puts, overlap) ==
    [events |-> events, advance |-> advance, faults |-> faults,
     requests |-> requests, puts |-> puts, startup |-> TRUE, cron |-> TRUE,
     overlap |-> overlap]

InitSysWith(scenario, settingsRow) ==
    /\ clock \in StartClocks
    /\ documents = [d \in Docs |->
            [exists |-> FALSE, userId |-> "u1", bikeId |-> "b1",
             expiryDate |-> NoDate, deleted |-> FALSE]]
    /\ alerts = << >>
    /\ nextAlertId = 1
    /\ settings = [u \in Users |-> settingsRow]
    /\ notificationQueue = EmptyBag
    /\ tick = [p \in Ticks |-> IdleTick]
    /\ req = [r \in Reqs |-> IdleReq]
    /\ budget = scenario
    /\ genAlerts = << >>
    /\ genDone = FALSE

InitSys(scenario) == InitSysWith(scenario, NoSettings)

InitIdleGen ==
    /\ genNow = 0
    /\ genExpiry = NoDate
    /\ call = NoCall

Init ==
    /\ InitSys(Scenario(MaxEvents, NoLimit, NoLimit, NoLimit, NoLimit, TRUE))
    /\ InitIdleGen

----------------------------------------------------------------------------
(* processDocumentAlerts *)

\* faulty variant: the query does not filter on scheduledAt
DueAlerts_AnyTime(store, now) ==
    {a \in DOMAIN store : store[a].status = "pending"}

\* faulty variant: the query does not filter on status
DueAlerts_AnyStatus(store, now) ==
    {a \in DOMAIN store : store[a].scheduledAt <= now}

\* where: { status: PENDING, scheduledAt: { lte: now } }
DueAlerts(store, now) ==
    {a \in DOMAIN store : store[a].status = "pending" /\ store[a].scheduledAt <= now}

\* findMany returns its rows in no stated order
Orderings(S) ==
    {s \in [1..Cardinality(S) -> S] : \A i, j \in DOMAIN s : i # j => s[i] # s[j]}

\* one row of pendingAlerts: the alert with its document (include: document)
Snapshot(a) ==
    [id |-> a, documentId |-> alerts[a].documentId, userId |-> alerts[a].userId,
     alertType |-> alerts[a].alertType, retryCount |-> alerts[a].retryCount,
     bikeId |-> documents[alerts[a].documentId].bikeId]

\* if (!settings?.documentAlerts)
AlertsDisabled(s) ==
    s = NoSettings \/ ~s[1].documentAlerts

\* isQuietTime, from the parsed "HH:MM" strings
IsQuietTime(now, quietHoursStart, quietHoursEnd) ==
    LET currentTime == TimeOfDay(now)
        startTime == quietHoursStart[1] * 60 + quietHoursStart[2]
        endTime == quietHoursEnd[1] * 60 + quietHoursEnd[2]
    IN  IF startTime <= endTime
        THEN currentTime >= startTime /\ currentTime <= endTime
        ELSE currentTime >= startTime \/ currentTime <= endTime

\* faulty variant: a window is never taken to wrap midnight
InQuietHours_NoWrap(s, now) ==
    /\ s.quietHoursStart # NoQuiet
    /\ s.quietHoursEnd # NoQuiet
    /\ LET currentTime == TimeOfDay(now)
           startTime == s.quietHoursStart[1] * 60 + s.quietHoursStart[2]
           endTime == s.quietHoursEnd[1] * 60 + s.quietHoursEnd[2]
       IN  currentTime >= startTime /\ currentTime <= endTime

\* if (settings.quietHoursStart && settings.quietHoursEnd) { ... if (isQuietTime)
InQuietHours(s, now) ==
    /\ s.quietHoursStart # NoQuiet
    /\ s.quietHoursEnd # NoQuiet
    /\ IsQuietTime(now, s.quietHoursStart, s.quietHoursEnd)

\* nextTime = new Date(); setHours(endHour, endMinute + 1, 0, 0); +1 day if <= now
NextTime(wall, now, quietHoursEnd) ==
    LET nextTime == SetHours(wall, quietHoursEnd[1], quietHoursEnd[2] + 1)
    IN  IF nextTime <= now THEN AddDays(nextTime, 1) ELSE nextTime

\* faulty variant: the switch falls to its default for every type
Priority_Default(alertType) == "NORMAL"

\* getAlertContent: priority by alertType
Priority(alertType) ==
    CASE alertType = "30_day" -> "LOW"
      [] alertType = "7_day" -> "NORMAL"
      [] alertType = "1_day" -> "HIGH"
      [] alertType = "expired" -> "CRITICAL"
      [] OTHER -> "NORMAL"

\* the row of prisma.notificationQueue.create; alertId is not a column: it
\* records which alert the row was created for
QueueEntry(snap) ==
    [userId |-> snap.userId, category |-> "document",
     priority |-> Priority(snap.alertType), type |-> "document_expiry",
     documentId |-> snap.documentId, bikeId |-> snap.bikeId,
     alertType |-> snap.alertType, status |-> "PENDING", alertId |-> snap.id]

\* the for loop moves to the next alert, or the function returns
NextAlert(t) ==
    IF t.idx < Len(t.batch)
    THEN [t EXCEPT !.idx = @ + 1, !.pc = "settings", !.next = 0]
    ELSE IdleTick

\* prisma.documentAlert.update({ where: { id }, data }) on an existing row
UpdateAlert(store, id, changes) ==
    [store EXCEPT ![id] = Merge(@, changes)]

\* the data of the catch block's update
CatchData(retryCount, now) ==
    LET newRetryCount == retryCount + 1
    IN  IF newRetryCount >= MaxRetries
        THEN [status |-> "failed", retryCount |-> newRetryCount, lastError |-> "Error"]
        ELSE [scheduledAt |-> now + Pow(BackoffBase, newRetryCount),
              retryCount |-> newRetryCount, lastError |-> "Error"]

\* a tick begins: now = new Date(), then the batch query.  kind "startup" is the
\* eager call of startAlertProcessor, kind "cron" one firing of the schedule.
StartTick(p, kind) ==
    /\ ~Active(p)
    /\ p = "t2" => Active("t1")
    /\ budget.overlap \/ \A q \in Ticks : ~Active(q)
    /\ \/ kind = "startup" /\ budget.startup
       \/ kind = "cron" /\ budget.cron
    /\ \E ok \in Outcomes :
        LET b == [Spend(ok) EXCEPT !.startup = IF kind = "startup" THEN FALSE ELSE @,
                                   !.cron = IF kind = "cron" THEN FALSE ELSE @]
            due == DueAlerts(alerts, clock)
        IN  /\ budget' = b
            /\ IF ~ok
               THEN tick' = [tick EXCEPT ![p] = Thrown(IdleTick)]
               ELSE \E S \in SUBSET due :
                      /\ Cardinality(S) = Min(BatchSize, Cardinality(due))
                      /\ \E order \in Orderings(S) :
                            tick' = [tick EXCEPT ![p] =
                                IF S = {} THEN IdleTick
                                ELSE [pc |-> "settings", now |-> clock,
                                      batch |-> [i \in DOMAIN order |-> Snapshot(order[i])],
                                      idx |-> 1, next |-> 0, fired |-> {}]]
    /\ UNCHANGED << clock, documents, alerts, nextAlertId, settings,
                    notificationQueue, req, genVars >>

\* prisma.notificationSettings.findUnique, then the branch taken
ReadSettings(p) ==
    /\ tick[p].pc = "settings"
    /\ \E ok \in Outcomes :
        /\ budget' = Spend(ok)
        /\ LET found == settings[Cur(p).userId]
               s == found[1]
           IN  tick' = [tick EXCEPT ![p] =
                 IF ~ok THEN [@ EXCEPT !.pc = "catch"]
                 ELSE IF AlertsDisabled(found) THEN [@ EXCEPT !.pc = "suppress"]
                 ELSE IF InQuietHours(s, tick[p].now)
                 THEN [@ EXCEPT !.pc = "defer",
                                !.next = NextTime(clock, tick[p].now, s.quietHoursEnd)]
                 ELSE [@ EXCEPT !.pc = "create"]]
    /\ UNCHANGED << clock, documents, alerts, nextAlertId, settings,
                    notificationQueue, req, genVars >>

\* a documentAlert.update of the try block: it throws when the call fails or the
\* row is gone
TryUpdate(p, pc, changes) ==
    /\ tick[p].pc = pc
    /\ \E ok \in Outcomes :
        /\ budget' = Spend(ok)
        /\ IF ok /\ Cur(p).id \in DOMAIN alerts
           THEN /\ alerts' = UpdateAlert(alerts, Cur(p).id, changes)
                /\ tick' = [tick EXCEPT ![p] = NextAlert(@)]
           ELSE /\ alerts' = alerts
                /\ tick' = [tick EXCEPT ![p].pc = "catch"]
    /\ UNCHANGED << clock, documents, nextAlertId, settings,
                    notificationQueue, req, genVars >>

\* data: { status: ACKNOWLEDGED }; continue
Suppress(p) ==
    TryUpdate(p, "suppress", [status |-> "acknowledged"])

\* data: { scheduledAt: nextTime }; continue
Defer(p) ==
    TryUpdate(p, "defer", [scheduledAt |-> tick[p].next])

\* prisma.notificationQueue.create
CreateNotification(p) ==
    /\ tick[p].pc = "create"
    /\ \E ok \in Outcomes :
        /\ budget' = Spend(ok)
        /\ IF ok
           THEN /\ notificationQueue' =
                      notificationQueue (+) SetToBag({QueueEntry(Cur(p))})
                /\ tick' = [tick EXCEPT ![p].pc = "markSent",
                                        ![p].fired = @ \cup {Cur(p).id}]
           ELSE /\ notificationQueue' = notificationQueue
                /\ tick' = [tick EXCEPT ![p].pc = "catch"]
    /\ UNCHANGED << clock, documents, alerts, nextAlertId, settings, req, genVars >>

\* faulty variant: the alert is marked sent without its time
MarkSent_NoSentAt(p) ==
    TryUpdate(p, "markSent", [status |-> "sent"])

\* data: { status: SENT, sentAt: now }
MarkSent(p) ==
    TryUpdate(p, "markSent", [status |-> "sent", sentAt |-> tick[p].now])

\* the catch block: its update is not itself guarded, so when it throws the
\* exception leaves processDocumentAlerts
Catch(p) ==
    /\ tick[p].pc = "catch"
    /\ \E ok \in Outcomes :
        /\ budget' = Spend(ok)
        /\ IF ok /\ Cur(p).id \in DOMAIN alerts
           THEN /\ alerts' = UpdateAlert(alerts, Cur(p).id,
                                  CatchData(Cur(p).retryCount, tick[p].now))
                /\ tick' = [tick EXCEPT ![p] = NextAlert(@)]
           ELSE /\ alerts' = alerts
                /\ tick' = [tick EXCEPT ![p] = Thrown(@)]
    /\ UNCHANGED << clock, documents, nextAlertId, settings,
                    notificationQueue, req, genVars >>

\* faulty variant: the rejected promise is not caught, the processor is gone
LogError_Unhandled(p) ==
    /\ tick[p].pc = "threw"
    /\ UNCHANGED vars

\* startAlertProcessor: the rejected promise is caught and logged
LogError(p) ==
    /\ tick[p].pc = "threw"
    /\ tick' = [tick EXCEPT ![p] = IdleTick]
    /\ UNCHANGED << clock, documents, alerts, nextAlertId, settings,
                    notificationQueue, req, budget, genVars >>

\* the first 5-minute boundary at or after t
Boundary(t) == ((t + TickMinutes - 1) \div TickMinutes) * TickMinutes

\* the boundaries the clock may move to: the next one, or the first one at which
\* a pending alert is due (the ticks skipped in between find an empty batch)
NextBoundaries ==
    LET later == {Boundary(alerts[a].scheduledAt) :
                    a \in {x \in DOMAIN alerts : /\ alerts[x].status = "pending"
                                                 /\ alerts[x].scheduledAt > clock}}
        first == {t \in later : \A u \in later : t <= u}
    IN  {clock + TickMinutes} \cup {t \in first : t > clock}

\* time passes; the schedule fires again
AdvanceClock ==
    /\ Left(budget.advance) /\ Left(budget.events)
    /\ clock' \in NextBoundaries
    /\ budget' = [budget EXCEPT !.advance = Less(@), !.events = Less(@),
                                 !.cron = TRUE, !.startup = FALSE]
    /\ UNCHANGED << documents, alerts, nextAlertId, settings, notificationQueue,
                    tick, req, genVars >>

----------------------------------------------------------------------------
(* PUT /notifications/settings: upsert of the request body *)

SettingsDefaults ==
    [documentAlerts |-> TRUE, quietHoursStart |-> NoQuiet, quietHoursEnd |-> NoQuiet]

\* body fields; "absent" / NoQuiet: the field is not in the body
Upsert(row, body) ==
    LET base == IF row = NoSettings THEN SettingsDefaults ELSE row[1]
    IN  << [documentAlerts |-> IF body.documentAlerts = "absent"
                            THEN base.documentAlerts ELSE body.documentAlerts = "true",
         quietHoursStart |-> IF body.quietHoursStart = NoQuiet
                             THEN base.quietHoursStart ELSE body.quietHoursStart,
         quietHoursEnd |-> IF body.quietHoursEnd = NoQuiet
                           THEN base.quietHoursEnd ELSE body.quietHoursEnd] >>

PutSettings(u) ==
    /\ Left(budget.puts) /\ Left(budget.events)
    /\ \E da \in {"absent", "true", "false"}, qs, qe \in QuietTimes \cup {NoQuiet} :
         settings' = [settings EXCEPT ![u] =
            Upsert(@, [documentAlerts |-> da, quietHoursStart |-> qs,
                       quietHoursEnd |-> qe])]
    /\ budget' = [budget EXCEPT !.puts = Less(@), !.events = Less(@)]
    /\ UNCHANGED << clock, documents, alerts, nextAlertId, notificationQueue,
                    tick, req, genVars >>

----------------------------------------------------------------------------
(* DocumentService: each prisma call of a request is one step *)

\* faulty variant: the removal does not filter on status
DeleteManyPending_AnyStatus(store, documentId) ==
    [a \in {x \in DOMAIN store : store[x].documentId # documentId} |-> store[a]]

\* faulty variant: pending alerts are cancelled, not removed
DeleteManyPending_Acknowledge(store, documentId) ==
    [a \in DOMAIN store |->
        IF a \in PendingOf(store, documentId)
        THEN [store[a] EXCEPT !.status = "acknowledged"] ELSE store[a]]

\* prisma.documentAlert.deleteMany({ where: { documentId, status: PENDING } })
DeleteManyPending(store, documentId) ==
    [a \in DOMAIN store \ PendingOf(store, documentId) |-> store[a]]

\* faulty variant: the cancellation does not filter on status
AcknowledgePending_AnyStatus(store, documentId) ==
    [a \in DOMAIN store |->
        IF store[a].documentId = documentId
        THEN [store[a] EXCEPT !.status = "acknowledged"] ELSE store[a]]

\* prisma.documentAlert.updateMany({ where: { documentId, status: PENDING },
\*                                   data: { status: ACKNOWLEDGED } })
AcknowledgePending(store, documentId) ==
    [a \in DOMAIN store |->
        IF a \in PendingOf(store, documentId)
        THEN [store[a] EXCEPT !.status = "acknowledged"] ELSE store[a]]

Visible(d) == documents[d].exists /\ ~documents[d].deleted

Begin(r) ==
    /\ req[r].pc = "idle"
    /\ r = "r2" => req["r1"].pc # "idle"
    /\ budget.overlap \/ \A q \in Reqs : req[q].pc = "idle"
    /\ Left(budget.requests) /\ Left(budget.events)
    /\ budget' = [budget EXCEPT !.requests = Less(@), !.events = Less(@)]

\* create: prisma.document.create
CreateDocument(r) ==
    /\ Begin(r)
    /\ \E d \in Docs, u \in Users, b \in Bikes, e \in ExpiryDates \cup {NoDate} :
        /\ ~documents[d].exists
        /\ \A c \in Docs : c < d => documents[c].exists
        /\ documents' = [documents EXCEPT ![d] =
              [exists |-> TRUE, userId |-> u, bikeId |-> b, expiryDate |-> e,
               deleted |-> FALSE]]
        /\ req' = [req EXCEPT ![r] =
              IF e = NoDate THEN IdleReq
              ELSE [pc |-> "cre_gen", documentId |-> d, expiryDate |-> e,
                    cancelled |-> {}]]
    /\ UNCHANGED << clock, alerts, nextAlertId, settings, notificationQueue,
                    tick, genVars >>

\* generateAlerts(document): now = new Date(), then createMany when non-empty
Generate(r, pc) ==
    /\ req[r].pc = pc
    /\ LET plans == GenerateAlerts(req[r].expiryDate, clock)
           d == req[r].documentId
       IN  /\ alerts' = CreateMany(alerts, nextAlertId, d, documents[d].userId, plans)
           /\ nextAlertId' = nextAlertId + Len(plans)
    /\ req' = [req EXCEPT ![r] = IdleReq]
    /\ UNCHANGED << clock, documents, settings, notificationQueue, tick, budget,
                    genVars >>

CreateGenerate(r) == Generate(r, "cre_gen")

\* update: findById passes; dtoExpiry = NoDate: the body has no expiryDate
UpdateFind(r) ==
    /\ Begin(r)
    /\ \E d \in Docs, dtoExpiry \in ExpiryDates \cup {NoDate} :
        /\ Visible(d)
        /\ req' = [req EXCEPT ![r] =
              [pc |-> "upd_write", documentId |-> d, expiryDate |-> dtoExpiry,
               cancelled |-> {}]]
    /\ UNCHANGED << clock, documents, alerts, nextAlertId, settings,
                    notificationQueue, tick, genVars >>

\* update: prisma.document.update; `updated` is the row it returns
UpdateWrite(r) ==
    /\ req[r].pc = "upd_write"
    /\ LET d == req[r].documentId
           dtoExpiry == req[r].expiryDate
           updated == IF dtoExpiry = NoDate THEN documents[d]
                      ELSE [documents[d] EXCEPT !.expiryDate = dtoExpiry]
       IN  /\ documents' = [documents EXCEPT ![d] = updated]
           /\ req' = [req EXCEPT ![r] =
                 IF dtoExpiry = NoDate THEN IdleReq
                 ELSE [@ EXCEPT !.pc = "upd_delete",
                                !.expiryDate = updated.expiryDate]]
    /\ UNCHANGED << clock, alerts, nextAlertId, settings, notificationQueue,
                    tick, budget, genVars >>

\* update: deleteMany of the pending alerts
UpdateDeleteMany(r) ==
    /\ req[r].pc = "upd_delete"
    /\ alerts' = DeleteManyPending(alerts, req[r].documentId)
    /\ req' = [req EXCEPT ![r] =
          IF @.expiryDate = NoDate THEN IdleReq
          ELSE [@ EXCEPT !.pc = "upd_gen",
                         !.cancelled = PendingOf(alerts, req[r].documentId)]]
    /\ UNCHANGED << clock, documents, nextAlertId, settings, notificationQueue,
                    tick, budget, genVars >>

UpdateGenerate(r) == Generate(r, "upd_gen")

\* delete: findById passes
DeleteFind(r) ==
    /\ Begin(r)
    /\ \E d \in Docs :
        /\ Visible(d)
        /\ req' = [req EXCEPT ![r] =
              [pc |-> "del_write", documentId |-> d, expiryDate |-> NoDate,
               cancelled |-> {}]]
    /\ UNCHANGED << clock, documents, alerts, nextAlertId, settings,
                    notificationQueue, tick, genVars >>

\* delete: data: { deletedAt: new Date() }
DeleteWrite(r) ==
    /\ req[r].pc = "del_write"
    /\ documents' = [documents EXCEPT ![req[r].documentId].deleted = TRUE]
    /\ req' = [req EXCEPT ![r].pc = "del_cancel"]
    /\ UNCHANGED << clock, alerts, nextAlertId, settings, notificationQueue,
                    tick, budget, genVars >>

\* delete: cancel pending alerts
DeleteCancel(r) ==
    /\ req[r].pc = "del_cancel"
    /\ alerts' = AcknowledgePending(alerts, req[r].documentId)
    /\ req' = [req EXCEPT ![r] = IdleReq]
    /\ UNCHANGED << clock, documents, nextAlertId, settings, notificationQueue,
                    tick, budget, genVars >>

----------------------------------------------------------------------------
(* The system: requests, settings changes and ticks interleave freely, two
   ticks and two requests may run at once *)

RequestStep(r) ==
    \/ CreateDocument(r)
    \/ CreateGenerate(r)
    \/ UpdateFind(r)
    \/ UpdateWrite(r)
    \/ UpdateDeleteMany(r)
    \/ UpdateGenerate(r)
    \/ DeleteFind(r)
    \/ DeleteWrite(r)
    \/ DeleteCancel(r)

TickStep(p) ==
    \/ ReadSettings(p)
    \/ Suppress(p)
    \/ Defer(p)
    \/ CreateNotification(p)
    \/ MarkSent(p)
    \/ Catch(p)
    \/ LogError(p)

Next ==
    \/ AdvanceClock
    \/ \E u \in Users : PutSettings(u)
    \/ \E r \in Reqs : RequestStep(r)
    \/ \E p \in Ticks, kind \in {"startup", "cron"} : StartTick(p, kind)
    \/ \E p \in Ticks : TickStep(p)

Spec == Init /\ [][Next]_vars

\* ticks that do not overlap and documents that are created and never edited,
\* with more failing calls and a longer run of the clock
InitRetry ==
    /\ InitSys(Scenario(NoLimit, RetryAdvance, RetryFaults, RetryRequests, RetryPuts,
                         FALSE))
    /\ InitIdleGen

NextRetry ==
    \/ AdvanceClock
    \/ \E u \in Users : PutSettings(u)
    \/ \E r \in Reqs : CreateDocument(r) \/ CreateGenerate(r)
    \/ \E p \in Ticks, kind \in {"startup", "cron"} : StartTick(p, kind)
    \/ \E p \in Ticks : TickStep(p)

SpecRetry == InitRetry /\ [][NextRetry]_vars

\* slow ticks: ticks overlap, and the user, who has opened the settings screen
\* before (GET /settings created the row with the defaults), changes settings
\* while they run
InitSlow ==
    /\ InitSysWith(Scenario(NoLimit, SlowAdvance, SlowFaults, SlowRequests, SlowPuts, TRUE),
                   << SettingsDefaults >>)
    /\ InitIdleGen

SpecSlow == InitSlow /\ [][NextRetry]_vars

\* the whole system for a user who has a settings row with the defaults
InitUser ==
    /\ InitSysWith(Scenario(UserEvents, NoLimit, NoLimit, NoLimit, NoLimit, TRUE),
                   << SettingsDefaults >>)
    /\ InitIdleGen

SpecUser == InitUser /\ [][Next]_vars

\* the whole system again, over shorter runs (document edits need few events)
InitEdit ==
    /\ InitSys(Scenario(EditEvents, NoLimit, NoLimit, NoLimit, NoLimit, TRUE))
    /\ InitIdleGen

SpecEdit == InitEdit /\ [][Next]_vars

\* ticks that overlap and fail, over documents that are created and never
\* edited, for a user whose settings row has the defaults at first
InitOverlap ==
    /\ InitSysWith(Scenario(NoLimit, OverlapAdvance, OverlapFaults, OverlapRequests,
                            OverlapPuts, TRUE),
                   << SettingsDefaults >>)
    /\ InitIdleGen

SpecOverlap == InitOverlap /\ [][NextRetry]_vars

\* the processor over the whole ladder of one document: the document was
\* created at start with an expiry date a month ahead, so all four alerts are
\* pending; the user's settings row has the defaults, or alerts off, or quiet
\* hours; ticks do not overlap
\* the state after such a create, for the scenario of a specification
InitLadder(scenario) ==
    /\ \E b \in NotifyBikes, row \in {SettingsDefaults,
                                       [SettingsDefaults EXCEPT !.documentAlerts = FALSE],
                                       [SettingsDefaults EXCEPT !.quietHoursStart = <<9, 0>>,
                                                                !.quietHoursEnd = <<9, 0>>]},
          c \in StartClocks :
         LET e == NotifyExpiryDay * MinutesPerDay
         IN  /\ clock = c
             /\ documents = [d \in Docs |->
                    [exists |-> d = 1, userId |-> "u1",
                     bikeId |-> IF d = 1 THEN b ELSE "b1",
                     expiryDate |-> IF d = 1 THEN e ELSE NoDate, deleted |-> FALSE]]
             /\ alerts = CreateMany(<< >>, 1, 1, "u1", GenerateAlerts(e, c))
             /\ nextAlertId = 1 + Len(GenerateAlerts(e, c))
             /\ settings = [u \in Users |-> << row >>]
    /\ notificationQueue = EmptyBag
    /\ tick = [p \in Ticks |-> IdleTick]
    /\ req = [r \in Reqs |-> IdleReq]
    /\ budget = scenario
    /\ genAlerts = << >>
    /\ genDone = FALSE
    /\ InitIdleGen

InitNotify == InitLadder(Scenario(NoLimit, NotifyAdvance, NotifyFaults, 0, 0, FALSE))

NextNotify ==
    \/ AdvanceClock
    \/ \E p \in Ticks, kind \in {"startup", "cron"} : StartTick(p, kind)
    \/ \E p \in Ticks : TickStep(p)

SpecNotify == InitNotify /\ [][NextNotify]_vars

\* the schedule as node-cron runs it: startAlertProcessor calls the eager tick
\* and each firing calls its tick at the instant it fires, so time moves on to
\* the next firing only when the ticks of this instant have started; a tick
\* ends before the next firing.  Every step of a started tick is taken in the
\* end (the event loop runs each continuation).
InitCron == InitLadder(Scenario(NoLimit, CronFirings, CronFaults, 0, 0, FALSE))

CronAdvance ==
    /\ ~budget.startup /\ ~budget.cron
    /\ AdvanceClock

CronStart == \E p \in Ticks, kind \in {"startup", "cron"} : StartTick(p, kind)

CronStep == \E p \in Ticks : TickStep(p)

NextCron == CronAdvance \/ CronStart \/ CronStep

SpecCron ==
    InitCron /\ [][NextCron]_vars /\ WF_vars(CronStart) /\ WF_vars(CronStep)

----------------------------------------------------------------------------
(* one alert and the ticks that process it, one after the other, with a count
   of the processing attempts that ended in failure: an attempt fails when a
   store call of the try block fails, and the update of the catch block may
   fail as well (the tick throws).  The user has a settings row with the
   defaults or with quiet hours. *)

InitAttempts ==
    /\ InitSys(Scenario(0, 0, 0, 0, 0, FALSE))
    /\ genNow = 0
    /\ genExpiry = NoDate
    /\ \E c \in StartClocks, qs, qe \in QuietTimes \cup {NoQuiet},
          ty \in {"1_day", "expired"} :
         call = [op |-> "attempts", done |-> FALSE, clock |-> c, ticked |-> TRUE,
                 firings |-> 0, faults |-> AttemptFaults, failures |-> 0,
                 settings |-> [SettingsDefaults EXCEPT !.quietHoursStart = qs,
                                                       !.quietHoursEnd = qe],
                 alert |-> NewAlertRow(1, "u1",
                              [alertType |-> ty,
                               scheduledAt |-> SetHours(c, AlertHour, 0)])]

\* cron: the next 5-minute boundary, or the first at which the alert is due
AttemptsAdvance ==
    /\ call.op = "attempts" /\ call.ticked /\ call.firings < AttemptFirings
    /\ \E t \in {call.clock + TickMinutes} \cup
                 (IF call.alert.status = "pending" /\ call.alert.scheduledAt > call.clock
                  THEN {Boundary(call.alert.scheduledAt)} ELSE {}) :
         call' = [call EXCEPT !.clock = t, !.ticked = FALSE, !.firings = @ + 1]
    /\ UNCHANGED << sysVars, genNow, genExpiry, genAlerts, genDone >>

\* processDocumentAlerts, from the batch query to its return or throw
AttemptsTick ==
    /\ call.op = "attempts" /\ ~call.ticked
    /\ LET now == call.clock
           row == call.alert
           s == call.settings
           due == row.status = "pending" /\ row.scheduledAt <= now
           done == [call EXCEPT !.ticked = TRUE]
       IN  \/ /\ ~due
              /\ call' = done
           \/ /\ due
              /\ call' = [done EXCEPT !.alert =
                    IF InQuietHours(s, now)
                    THEN Merge(row, [scheduledAt |-> NextTime(now, now, s.quietHoursEnd)])
                    ELSE Merge(row, [status |-> "sent", sentAt |-> now])]
           \/ /\ due /\ call.faults >= 1
              /\ call' = [done EXCEPT !.faults = @ - 1, !.failures = @ + 1,
                                      !.alert = Merge(row, CatchData(row.retryCount, now))]
           \/ /\ due /\ call.faults >= 2
              /\ call' = [done EXCEPT !.faults = @ - 2, !.failures = @ + 1]
    /\ UNCHANGED << sysVars, genNow, genExpiry, genAlerts, genDone >>

NextAttempts == AttemptsAdvance \/ AttemptsTick

SpecAttempts == InitAttempts /\ [][NextAttempts]_vars

----------------------------------------------------------------------------
(* generateAlerts on its own: every (now, expiryDate) of the bounded grid *)

InitGen ==
    /\ InitSys(Scenario(0, 0, 0, 0, 0, FALSE))
    /\ genNow \in {GenNowDay * MinutesPerDay + t : t \in GenTimesOfDay}
    /\ genExpiry \in {d * MinutesPerDay + t : d \in 0..GenMaxExpiryDay, t \in GenTimesOfDay}
    /\ call = NoCall

GenCall ==
    /\ ~genDone
    /\ genAlerts' = GenerateAlerts(genExpiry, genNow)
    /\ genDone' = TRUE
    /\ UNCHANGED << sysVars, genNow, genExpiry, call >>

NextGen == GenCall

SpecGen == InitGen /\ [][NextGen]_vars

----------------------------------------------------------------------------
(* the quiet-hours test of processDocumentAlerts on its own: every now and
   window of the bounded grid *)

InitQuiet ==
    /\ InitSys(Scenario(0, 0, 0, 0, 0, FALSE))
    /\ genNow = 0
    /\ genExpiry = NoDate
    /\ call \in {[op |-> "quiet", done |-> FALSE,
                   now |-> QuietDay * MinutesPerDay + t, wall |-> QuietDay * MinutesPerDay + t + w,
                   quietHoursStart |-> qs, quietHoursEnd |-> qe,
                   isQuietTime |-> FALSE, nextTime |-> NoDate] :
                     t \in QuietNowTimes, w \in {0, TickMinutes},
                     qs \in QuietWindowTimes \cup {NoQuiet},
                     qe \in QuietWindowTimes \cup {NoQuiet}}

QuietCall ==
    /\ call.op = "quiet" /\ ~call.done
    /\ LET s == [SettingsDefaults EXCEPT !.quietHoursStart = call.quietHoursStart,
                                         !.quietHoursEnd = call.quietHoursEnd]
           quiet == InQuietHours(s, call.now)
       IN  call' = [call EXCEPT !.done = TRUE,
                                !.isQuietTime = quiet,
                                !.nextTime = IF quiet
                                             THEN NextTime(call.wall, call.now, call.quietHoursEnd)
                                             ELSE NoDate]
    /\ UNCHANGED << sysVars, genNow, genExpiry, genAlerts, genDone >>

NextQuiet == QuietCall

SpecQuiet == InitQuiet /\ [][NextQuiet]_vars

----------------------------------------------------------------------------
(* one alert under quiet hours, for as long as it takes: the schedule fires
   every 5 minutes, each tick runs to its end before the next, and time never
   stops.  Times are kept relative to the midnight of the current day: when the
   clock passes midnight, one day is taken off the clock and off scheduledAt
   (a scheduledAt that was already due stays due, at 00:00). *)

InitLive ==
    /\ InitSys(Scenario(0, 0, 0, 0, 0, FALSE))
    /\ genNow = 0
    /\ genExpiry = NoDate
    /\ \E c \in StartClocks, w \in LiveWindows :
         call = [op |-> "live", done |-> FALSE, clock |-> c, ticked |-> TRUE,
                 settings |-> [SettingsDefaults EXCEPT !.quietHoursStart = w[1],
                                                       !.quietHoursEnd = w[2]],
                 alert |-> NewAlertRow(1, "u1",
                              [alertType |-> "expired",
                               scheduledAt |-> SetHours(c, AlertHour, 0)])]

\* cron: the next 5-minute boundary
LiveAdvance ==
    /\ call.op = "live" /\ call.ticked
    /\ LET t == Boundary(call.clock + 1)
           days == DayOf(t)
           sched == call.alert.scheduledAt - days * MinutesPerDay
       IN  call' = [call EXCEPT !.clock = t - days * MinutesPerDay,
                                !.ticked = FALSE,
                                !.alert.scheduledAt = IF sched < 0 THEN 0 ELSE sched]
    /\ UNCHANGED << sysVars, genNow, genExpiry, genAlerts, genDone >>

\* processDocumentAlerts, from the batch query to the end of the loop
LiveTick ==
    /\ call.op = "live" /\ ~call.ticked
    /\ LET now == call.clock
           row == call.alert
           s == call.settings
           due == row.status = "pending" /\ row.scheduledAt <= now
       IN  \E ok \in BOOLEAN :
             call' = [call EXCEPT
                 !.ticked = TRUE,
                 !.alert =
                    IF ~due THEN row
                    ELSE IF ~ok THEN Merge(row, CatchData(row.retryCount, now))
                    ELSE IF AlertsDisabled(<< s >>)
                    THEN Merge(row, [status |-> "acknowledged"])
                    ELSE IF InQuietHours(s, now)
                    THEN Merge(row, [scheduledAt |-> NextTime(now, now, s.quietHoursEnd)])
                    ELSE Merge(row, [status |-> "sent", sentAt |-> now])]
    /\ UNCHANGED << sysVars, genNow, genExpiry, genAlerts, genDone >>

NextLive == LiveAdvance \/ LiveTick

SpecLive ==
    InitLive /\ [][NextLive]_vars /\ WF_vars(LiveAdvance) /\ WF_vars(LiveTick)

----------------------------------------------------------------------------
(* BikeService: one bike, its three odometer columns, and the oil-change
   status that findById computes from them.  percentageUsed is kept in
   hundredths of a percent (Math.round(p * 100) / 100 has two decimals). *)

\* Math.round of the fraction num / den (den > 0): halves go up
Round(num, den) == (2 * num + den) \div (2 * den)

\* faulty variant: a reading on the interval is not overdue yet
StatusOf_StrictOverdue(kmRemaining) ==
    IF kmRemaining < 0 THEN "overdue"
    ELSE IF kmRemaining <= DueSoonKm THEN "due_soon"
    ELSE "ok"

StatusOf(kmRemaining) ==
    IF kmRemaining <= 0 THEN "overdue"
    ELSE IF kmRemaining <= DueSoonKm THEN "due_soon"
    ELSE "ok"

\* Math.min(100, (kmSinceChange / interval) * 100), then rounded to hundredths
PercentageUsed(kmSinceChange, interval) ==
    IF kmSinceChange >= interval THEN 100 * 100
    ELSE Round(kmSinceChange * 100 * 100, interval)

CalculateOilChangeStatus(bike) ==
    LET interval == bike.oilChangeIntervalKm
        lastChangeKm == bike.lastOilChangeKm
        currentKm == bike.currentOdometerKm
        kmSinceChange == currentKm - lastChangeKm
        kmRemaining == interval - kmSinceChange
    IN  [status |-> StatusOf(kmRemaining),
         kmRemaining |-> IF kmRemaining > 0 THEN kmRemaining ELSE 0,
         kmSinceLastChange |-> kmSinceChange,
         percentageUsed |-> PercentageUsed(kmSinceChange, interval),
         nextChangeAtKm |-> lastChangeKm + interval,
         overdueByKm |-> IF kmRemaining < 0 THEN 0 - kmRemaining ELSE 0]

\* dto.x || dflt
OrDefault(x, dflt) == IF x = Absent \/ x = 0 THEN dflt ELSE x

\* data: { x: dto.x } of prisma update: undefined leaves the column alone
OrKeep(x, old) == IF x = Absent THEN old ELSE x

NoBike == [oilChangeIntervalKm |-> 0, lastOilChangeKm |-> 0, currentOdometerKm |-> 0]

NoStatus == [status |-> "none"]

InitBike ==
    /\ InitSys(Scenario(0, 0, 0, 0, 0, FALSE))
    /\ genNow = 0
    /\ genExpiry = NoDate
    /\ call = [op |-> "bike", done |-> FALSE, ops |-> 0, exists |-> FALSE,
               bike |-> NoBike, oilChangeStatus |-> NoStatus]

\* POST /bikes
BikeCreate ==
    /\ call.op = "bike" /\ ~call.exists
    /\ \E interval \in OilIntervals \cup {Absent},
          currentKm \in OilKms \cup {Absent},
          lastChangeKm \in OilKms \cup {Absent} :
         call' = [call EXCEPT
             !.exists = TRUE,
             !.bike = [oilChangeIntervalKm |-> OrDefault(interval, DefaultIntervalKm),
                       currentOdometerKm |-> OrDefault(currentKm, 0),
                       lastOilChangeKm |-> OrDefault(lastChangeKm, 0)]]
    /\ UNCHANGED << sysVars, genNow, genExpiry, genAlerts, genDone >>

\* PUT /bikes/:id
BikeUpdate ==
    /\ call.op = "bike" /\ call.exists /\ call.ops < BikeOps
    /\ \E interval \in OilIntervals \cup {Absent},
          currentKm \in OilKms \cup {Absent} :
         call' = [call EXCEPT
             !.ops = @ + 1,
             !.oilChangeStatus = NoStatus,
             !.bike.oilChangeIntervalKm = OrKeep(interval, @),
             !.bike.currentOdometerKm = OrKeep(currentKm, @)]
    /\ UNCHANGED << sysVars, genNow, genExpiry, genAlerts, genDone >>

\* PUT /bikes/:id/odometer
UpdateOdometer ==
    /\ call.op = "bike" /\ call.exists /\ call.ops < BikeOps
    /\ \E newOdometer \in OilKms :
         call' = [call EXCEPT
             !.ops = @ + 1,
             !.oilChangeStatus = NoStatus,
             !.bike.currentOdometerKm =
                 IF newOdometer < @ THEN @ ELSE newOdometer]
    /\ UNCHANGED << sysVars, genNow, genExpiry, genAlerts, genDone >>

\* MaintenanceService.create: what it writes to the bike
LogMaintenance ==
    /\ call.op = "bike" /\ call.exists /\ call.ops < BikeOps
    /\ \E odometerAtMaintenance \in OilKms, oilChange \in BOOLEAN :
         LET higher == IF odometerAtMaintenance > call.bike.currentOdometerKm
                       THEN odometerAtMaintenance
                       ELSE call.bike.currentOdometerKm
         IN  call' = [call EXCEPT
                 !.ops = @ + 1,
                 !.oilChangeStatus = NoStatus,
                 !.bike.lastOilChangeKm =
                     IF oilChange THEN odometerAtMaintenance ELSE @,
                 !.bike.currentOdometerKm = higher]
    /\ UNCHANGED << sysVars, genNow, genExpiry, genAlerts, genDone >>

\* GET /bikes/:id
FindById ==
    /\ call.op = "bike" /\ call.exists /\ call.oilChangeStatus = NoStatus
    /\ call' = [call EXCEPT !.oilChangeStatus = CalculateOilChangeStatus(call.bike)]
    /\ UNCHANGED << sysVars, genNow, genExpiry, genAlerts, genDone >>

NextBike == BikeCreate \/ BikeUpdate \/ UpdateOdometer \/ LogMaintenance \/ FindById

SpecBike == InitBike /\ [][NextBike]_vars

----------------------------------------------------------------------------
(* BikeService: the bikes of one user and their isPrimary flag.  Bikes get
   their ids in the order they are created, so the bike created last is the
   one with the largest id; each service call runs to its end before the
   next. *)

FleetIds == 1..MaxBikes

NoFleetBike == [exists |-> FALSE, deleted |-> FALSE, isPrimary |-> FALSE]

\* where: { userId, deletedAt: null }
LiveBikes(bikes) == {b \in FleetIds : bikes[b].exists /\ ~bikes[b].deleted}

\* updateMany({ where: { userId, isPrimary: true, deletedAt: null, id: { not } },
\*              data: { isPrimary: false } }); skip = 0: no id is left out
UnsetPrimaries(bikes, skip) ==
    [b \in FleetIds |->
        IF b \in LiveBikes(bikes) /\ bikes[b].isPrimary /\ b # skip
        THEN [bikes[b] EXCEPT !.isPrimary = FALSE] ELSE bikes[b]]

\* findFirst({ where: { userId, deletedAt: null }, orderBy: { createdAt: 'desc' } })
LatestBike(bikes) ==
    CHOOSE b \in LiveBikes(bikes) : \A c \in LiveBikes(bikes) : c <= b

\* delete, after the row is marked deleted: if (remainingBikes) update isPrimary
AfterDelete(bikes) ==
    IF LiveBikes(bikes) = {} THEN bikes
    ELSE [bikes EXCEPT ![LatestBike(bikes)].isPrimary = TRUE]

InitFleet ==
    /\ InitSys(Scenario(0, 0, 0, 0, 0, FALSE))
    /\ genNow = 0
    /\ genExpiry = NoDate
    /\ call = [op |-> "fleet", done |-> FALSE, ops |-> 0,
               bikes |-> [b \in FleetIds |-> NoFleetBike]]

FleetCall(bikes) ==
    /\ call.op = "fleet" /\ call.ops < FleetOps
    /\ call' = [call EXCEPT !.ops = @ + 1, !.bikes = bikes]
    /\ UNCHANGED << sysVars, genNow, genExpiry, genAlerts, genDone >>

\* create; isPrimary FALSE stands for false and for a body without the field
CreateBike ==
    \E b \in FleetIds, isPrimary \in BOOLEAN :
        /\ ~call.bikes[b].exists
        /\ \A c \in FleetIds : c < b => call.bikes[c].exists
        /\ LET unset == IF isPrimary THEN UnsetPrimaries(call.bikes, 0) ELSE call.bikes
               bikeCount == Cardinality(LiveBikes(unset))
           IN  FleetCall([unset EXCEPT ![b] =
                   [exists |-> TRUE, deleted |-> FALSE,
                    isPrimary |-> isPrimary \/ bikeCount = 0]])

\* update
UpdateBike ==
    \E b \in FleetIds, isPrimary \in {"absent", "true", "false"} :
        /\ b \in LiveBikes(call.bikes)
        /\ LET unset == IF isPrimary = "true"
                        THEN UnsetPrimaries(call.bikes, b) ELSE call.bikes
           IN  FleetCall([unset EXCEPT ![b].isPrimary =
                   IF isPrimary = "absent" THEN @ ELSE isPrimary = "true"])

\* setPrimary
SetPrimary ==
    \E b \in FleetIds :
        /\ b \in LiveBikes(call.bikes)
        /\ FleetCall([UnsetPrimaries(call.bikes, 0) EXCEPT ![b].isPrimary = TRUE])

\* delete
DeleteBike ==
    \E b \in FleetIds :
        /\ b \in LiveBikes(call.bikes)
        /\ FleetCall(AfterDelete([call.bikes EXCEPT ![b].deleted = TRUE,
                                                    ![b].isPrimary = FALSE]))

NextFleet == CreateBike \/ UpdateBike \/ SetPrimary \/ DeleteBike

SpecFleet == InitFleet /\ [][NextFleet]_vars

----------------------------------------------------------------------------
(* Properties *)

AlertIds == DOMAIN alerts

\* the four rungs, in ladder order, with strictly ascending fire times
IsFullLadder(plans) ==
    /\ Len(plans) = 4
    /\ [i \in 1..4 |-> plans[i].alertType] = << "30_day", "7_day", "1_day", "expired" >>
    /\ \A i \in 1..3 : plans[i].scheduledAt < plans[i + 1].scheduledAt

\* C1 as claimed: two ticks that run at the same time never both create a
\* notification-queue row for the same alert.
C1_NoDoubleFire ==
    \A p, q \in Ticks :
        (p # q /\ Active(p) /\ Active(q)) => tick[p].fired \cap tick[q].fired = {}

\* C2 as claimed: with ticks that do not overlap and store calls that may fail,
\* every alert has at most one notification-queue row.
C2_AtMostOneEntry ==
    \A a \in 1..(nextAlertId - 1) : QueueCount(a) <= 1

\* C3 as claimed: a tick that finds no settings row for the alert's user goes on
\* to enqueue the notification (it does not take the acknowledge branch).
C3_AbsentSettingsEnqueue ==
    [][\A p \in Ticks :
          (/\ tick[p].pc = "settings"
           /\ settings[Cur(p).userId] = NoSettings
           /\ tick'[p].pc \notin {"settings", "catch"})
          => tick'[p].pc = "create"]_vars

\* C4 as claimed: the 1st, 2nd and 3rd failure of an alert leave it pending and
\* reschedule it 5, 25 and 125 minutes after the tick's now; only the 4th sets
\* failed, with retryCount 3.  (With non-overlapping ticks the retryCount the
\* tick read is the number of failures recorded before.)
C4_FourthFailureFails ==
    [][\A p \in Ticks :
          (tick[p].pc = "catch" /\ tick'[p].pc \notin {"catch", "threw"})
          => LET a == Cur(p).id
                 nth == Cur(p).retryCount + 1
             IN  /\ a \in DOMAIN alerts'
                 /\ IF nth <= 3
                    THEN /\ alerts'[a].status = "pending"
                         /\ alerts'[a].scheduledAt = tick[p].now + Pow(5, nth)
                    ELSE /\ alerts'[a].status = "failed"
                         /\ alerts'[a].retryCount = 3]_vars

\* C5 as claimed: processDocumentAlerts throws only when the batch query fails;
\* an error inside the loop never ends the tick before the batch is done.
C5_OnlyQueryFailurePropagates ==
    \A p \in Ticks : tick[p].pc = "threw" => tick[p].idx = 0

\* C6 as claimed: a row that is sent, failed or acknowledged is never written
\* again (it stays in the store, unchanged).
C6_TerminalStaysTerminal ==
    [][\A a \in AlertIds :
          alerts[a].status # "pending"
          => a \in DOMAIN alerts' /\ alerts'[a] = alerts[a]]_vars

\* C7 as claimed: no document ever has two pending alerts of the same alertType.
C7_OnePendingPerType ==
    \A a, b \in AlertIds :
        (/\ a # b
         /\ alerts[a].documentId = alerts[b].documentId
         /\ alerts[a].status = "pending"
         /\ alerts[b].status = "pending")
        => alerts[a].alertType # alerts[b].alertType

ExpectedRows(d, e, now) ==
    {[documentId |-> d, userId |-> documents[d].userId, alertType |-> c.alertType,
      scheduledAt |-> (DayOf(e) - c.daysBefore) * MinutesPerDay + 9 * 60,
      status |-> "pending", retryCount |-> 0, lastError |-> NoError,
      sentAt |-> NoDate] :
        c \in {x \in {alertConfigs[i] : i \in DOMAIN alertConfigs} :
                 (DayOf(e) - x.daysBefore) * MinutesPerDay + 9 * 60 > now}}

C9_FullLadderBeyond30Days ==
    (genDone /\ genExpiry > genNow + 30 * MinutesPerDay) => IsFullLadder(genAlerts)

\* C9 amended: generateAlerts creates exactly the 4 alerts 30_day, 7_day, 1_day,
\* expired, with ascending scheduledAt, for every expiry date whose calendar day
\* is more than 30 days after the generation day, or exactly 30 days after it
\* when generation happens before 09:00.
C9_FullLadderByCalendarDay ==
    (/\ genDone
     /\ \/ DayOf(genExpiry) - DayOf(genNow) > 30
        \/ DayOf(genExpiry) - DayOf(genNow) = 30 /\ TimeOfDay(genNow) < 9 * 60)
    => IsFullLadder(genAlerts)

\* C9 witness: expiry on the 30th day after generation, generated before 09:00
C9_Witness ==
    /\ genDone
    /\ DayOf(genExpiry) - DayOf(genNow) = 30
    /\ TimeOfDay(genNow) < 9 * 60
    /\ genExpiry > genNow + 30 * MinutesPerDay
    /\ Len(genAlerts) = 4

\* C10 as claimed: an expiry date 3 days after now yields exactly one alert, 1_day.
C10_OnlyOneDayAlert ==
    (genDone /\ genExpiry = genNow + 3 * MinutesPerDay)
    => Len(genAlerts) = 1 /\ genAlerts[1].alertType = "1_day"

\* C10 amended: an expiry date on the third calendar day after the generation
\* day (so also one exactly 3 days after now) yields exactly two alerts, 1_day
\* and expired.
C10_OneDayAndExpired ==
    (genDone /\ DayOf(genExpiry) = DayOf(genNow) + 3)
    => /\ Len(genAlerts) = 2
       /\ genAlerts[1].alertType = "1_day"
       /\ genAlerts[2].alertType = "expired"

\* C10 witness: generation for an expiry date exactly 3 days after now
C10_Witness ==
    genDone /\ genExpiry = genNow + 3 * MinutesPerDay /\ Len(genAlerts) = 2

\* C11 as claimed: an expiry date earlier than now yields no alert, also when it
\* is earlier on the day of generation and generation happens before 09:00.
C11_PastExpiryNoAlerts ==
    (genDone /\ genExpiry < genNow) => genAlerts = << >>

\* C11 amended: an expiry date earlier than now yields no alert when its
\* calendar day is before the day of generation, or is the day of generation
\* and generation happens at 09:00 or later.
C11_PastDayNoAlerts ==
    (/\ genDone
     /\ genExpiry < genNow
     /\ \/ DayOf(genExpiry) < DayOf(genNow)
        \/ TimeOfDay(genNow) >= 9 * 60)
    => genAlerts = << >>

\* C11 witness: generation at 09:00 or later for an expiry earlier that day
C11_Witness ==
    /\ genDone
    /\ genExpiry < genNow
    /\ DayOf(genExpiry) = DayOf(genNow)
    /\ TimeOfDay(genNow) >= 9 * 60
    /\ genAlerts = << >>

\* the ladder as the claims state it: type and days before expiry
Rungs == {<< "30_day", 30 >>, << "7_day", 7 >>, << "1_day", 1 >>, << "expired", 0 >>}

\* a rung's fire time: the expiry date's calendar day minus the days, at 09:00
RungFireTime(e, days) == (DayOf(e) - days) * MinutesPerDay + 9 * 60

\* C12: generateAlerts creates an alert for a rung exactly when the rung's fire
\* time is strictly after now (a fire time equal to now is skipped); each alert
\* is pending and scheduled at its rung's fire time, there are at most 4, one
\* per rung, and none is scheduled at or before now.
C12_RungIffStrictlyFuture ==
    genDone =>
        /\ \A r \in Rungs :
              (\E k \in DOMAIN genAlerts : genAlerts[k].alertType = r[1])
              <=> RungFireTime(genExpiry, r[2]) > genNow
        /\ \A k \in DOMAIN genAlerts :
              /\ \E r \in Rungs :
                    /\ genAlerts[k].alertType = r[1]
                    /\ genAlerts[k].scheduledAt = RungFireTime(genExpiry, r[2])
              /\ genAlerts[k].scheduledAt > genNow
              /\ NewAlertRow(1, "u1", genAlerts[k]).status = "pending"
        /\ \A j, k \in DOMAIN genAlerts :
              j # k => genAlerts[j].alertType # genAlerts[k].alertType
        /\ Len(genAlerts) <= 4

\* C12 witness: a rung whose fire time equals now was skipped while a later
\* rung was created
C12_Witness ==
    /\ genDone
    /\ \E r \in Rungs :
          /\ RungFireTime(genExpiry, r[2]) = genNow
          /\ \A k \in DOMAIN genAlerts : genAlerts[k].alertType # r[1]
    /\ Len(genAlerts) > 0

\* minutes of "HH:MM"
Minutes(hm) == hm[1] * 60 + hm[2]

\* C13: quiet hours apply only when both start and end are configured; then a
\* window with start <= end contains the minute of day t iff start <= t <= end,
\* and a window with start > end contains t iff t >= start or t <= end.  So
\* 22:00-06:00 contains 23:30 and 02:00 and not 12:00; 09:00-17:00 contains
\* 10:00 and not 20:00.
C13_Containment ==
    (call.op = "quiet" /\ call.done) =>
        LET t == TimeOfDay(call.now)
            qs == call.quietHoursStart
            qe == call.quietHoursEnd
        IN  /\ (qs = NoQuiet \/ qe = NoQuiet) => ~call.isQuietTime
            /\ (qs # NoQuiet /\ qe # NoQuiet /\ Minutes(qs) <= Minutes(qe))
               => (call.isQuietTime <=> (Minutes(qs) <= t /\ t <= Minutes(qe)))
            /\ (qs # NoQuiet /\ qe # NoQuiet /\ Minutes(qs) > Minutes(qe))
               => (call.isQuietTime <=> (t >= Minutes(qs) \/ t <= Minutes(qe)))
            /\ (qs = <<22, 0>> /\ qe = <<6, 0>>)
               => /\ t \in {23 * 60 + 30, 2 * 60} => call.isQuietTime
                  /\ t = 12 * 60 => ~call.isQuietTime
            /\ (qs = <<9, 0>> /\ qe = <<17, 0>>)
               => /\ t = 10 * 60 => call.isQuietTime
                  /\ t = 20 * 60 => ~call.isQuietTime

\* C13 witness: 02:00 is found inside the wrapping window 22:00-06:00
C13_Witness ==
    /\ call.op = "quiet" /\ call.done
    /\ call.quietHoursStart = <<22, 0>> /\ call.quietHoursEnd = <<6, 0>>
    /\ TimeOfDay(call.now) = 2 * 60
    /\ call.isQuietTime

\* C14 as claimed: a tick that finds now inside the user's quiet window picks
\* as new time one minute past the window's end on the current day, or a day
\* later when that is not after now; its write then sets scheduledAt to that
\* time, never to an earlier time than the row had, on a row that is and stays
\* pending, with retryCount and lastError unchanged and nothing enqueued.
C14_DeferMovesLater ==
    [][\A p \in Ticks :
          /\ (tick[p].pc = "settings" /\ tick'[p].pc = "defer")
             => LET s == settings[Cur(p).userId][1]
                    sameDay == DayOf(clock) * MinutesPerDay + Minutes(s.quietHoursEnd) + 1
                IN  /\ tick'[p].next = IF sameDay > tick[p].now
                                       THEN sameDay ELSE sameDay + MinutesPerDay
                    /\ tick'[p].next > tick[p].now
          /\ (tick[p].pc = "defer" /\ tick'[p].pc \notin {"defer", "catch"})
             => LET a == Cur(p).id
                IN  /\ alerts[a].status = "pending"
                    /\ alerts'[a] = [alerts[a] EXCEPT !.scheduledAt = tick[p].next]
                    /\ alerts'[a].scheduledAt >= alerts[a].scheduledAt
                    /\ notificationQueue' = notificationQueue
                    /\ a \notin tick'[p].fired]_vars

\* C15 as claimed: a tick that reads a settings row with documentAlerts off sets
\* the alert to acknowledged, leaving retryCount and the other fields as they
\* were and enqueueing nothing; from then on no tick writes the row or enqueues
\* a notification for it, whatever the settings become.  (The acknowledged
\* alerts of a document that is not deleted, of a user with a settings row, are
\* the suppressed ones.)
C15_SuppressedForGood ==
    [][/\ \A p \in Ticks :
            /\ (/\ tick[p].pc = "settings"
                /\ settings[Cur(p).userId] # NoSettings
                /\ ~settings[Cur(p).userId][1].documentAlerts
                /\ tick'[p].pc \notin {"settings", "catch"})
               => tick'[p].pc = "suppress"
            /\ (tick[p].pc = "suppress" /\ tick'[p].pc \notin {"suppress", "catch"})
               => LET a == Cur(p).id
                  IN  /\ alerts'[a] = [alerts[a] EXCEPT !.status = "acknowledged"]
                      /\ notificationQueue' = notificationQueue
                      /\ QueueCount(a) = 0
       /\ \A a \in AlertIds :
            (/\ alerts[a].status = "acknowledged"
             /\ ~documents[alerts[a].documentId].deleted
             /\ settings[alerts[a].userId] # NoSettings)
            => /\ a \in DOMAIN alerts' /\ alerts'[a] = alerts[a]
               /\ QueueCount(a)' = QueueCount(a)]_vars

\* the alerts of the batch of a running tick
BatchIds(t) == {t.batch[i].id : i \in DOMAIN t.batch}

\* C16: a tick's batch holds only alerts that are pending (and due) when the
\* batch is queried, the batch never changes afterwards, and a step of a tick
\* writes or enqueues only for the alert of its batch it is at.  So a tick never
\* enqueues for or modifies an alert that was not pending at its batch query; in
\* particular a tick that starts after an alert was marked sent leaves its row
\* and its notifications as they are.
C16_OnlyPendingAtQuery ==
    [][/\ \A p \in Ticks :
            /\ (~Active(p) /\ Active(p)')
               => \A a \in BatchIds(tick'[p]) :
                     /\ a \in AlertIds
                     /\ alerts[a].status = "pending"
                     /\ alerts[a].scheduledAt <= clock
            /\ (Active(p) /\ Active(p)') => tick'[p].batch = tick[p].batch
       /\ (tick' # tick)
          => \A a \in AlertIds :
                (\/ a \notin DOMAIN alerts'
                 \/ alerts'[a] # alerts[a]
                 \/ QueueCount(a)' # QueueCount(a))
                => \E p \in Ticks :
                      /\ tick'[p] # tick[p]
                      /\ tick[p].pc \notin {"idle", "threw"}
                      /\ Cur(p).id = a]_vars

\* C16 witness: a tick that started after an alert was marked sent is running,
\* and the sent alert is not in its batch
C16_Witness ==
    \E p \in Ticks, a \in AlertIds :
        /\ Active(p)
        /\ tick[p].pc # "threw"
        /\ alerts[a].status = "sent"
        /\ alerts[a].sentAt < tick[p].now
        /\ a \notin BatchIds(tick[p])
        /\ QueueCount(a) = 1

\* C17: the steps of documentService.delete create and remove no alert; its
\* cancellation step sets the pending alerts of the document to acknowledged,
\* changing nothing else in them, and leaves the document's other alerts and
\* the alerts of other documents as they were.
C17_DeleteFrame ==
    [][\A r \in Reqs :
          /\ (req[r].pc \in {"del_write", "del_cancel"} /\ req'[r] # req[r])
             => /\ DOMAIN alerts' = DOMAIN alerts
                /\ nextAlertId' = nextAlertId
          /\ (req[r].pc = "del_write" /\ req'[r] # req[r]) => alerts' = alerts
          /\ (req[r].pc = "del_cancel" /\ req'[r] # req[r])
             => \A a \in AlertIds :
                   alerts'[a] =
                     IF /\ alerts[a].documentId = req[r].documentId
                        /\ alerts[a].status = "pending"
                     THEN [alerts[a] EXCEPT !.status = "acknowledged"]
                     ELSE alerts[a]]_vars

\* C17 witness: a deleted document with an alert that was sent before and an
\* alert that the deletion acknowledged
C17_Witness ==
    \E a, b \in AlertIds :
        /\ alerts[a].documentId = alerts[b].documentId
        /\ documents[alerts[a].documentId].deleted
        /\ alerts[a].status = "sent"
        /\ alerts[b].status = "acknowledged"
        /\ \A r \in Reqs : req[r].pc = "idle"

\* C18 as claimed: with ticks that keep running and time that advances, the
\* alert eventually is sent, failed or acknowledged, whatever quiet-hours
\* window the user has configured.
C18_EventuallyTerminal ==
    <>(call.op = "live" /\ call.alert.status \in {"sent", "failed", "acknowledged"})

\* interval - (current - last) of the bike that was read
OilKmLeft ==
    call.bike.oilChangeIntervalKm
        - (call.bike.currentOdometerKm - call.bike.lastOilChangeKm)

\* the bike has been read since it was last written
OilRead == call.op = "bike" /\ call.exists /\ call.oilChangeStatus # NoStatus

\* C19: the status is overdue when interval - kmSinceChange <= 0, due_soon
\* when it is in 1..250 and ok otherwise, and kmRemaining is
\* max(0, interval - kmSinceChange); (2400, 0, 2500) is due_soon with 100 km
\* left and (2600, 0, 2500) is overdue with 0 km left.
C19_StatusRule ==
    OilRead =>
        LET st == call.oilChangeStatus
            b == call.bike
        IN  /\ (st.status = "overdue") <=> (OilKmLeft <= 0)
            /\ (st.status = "due_soon") <=> (OilKmLeft \in 1..250)
            /\ (st.status = "ok") <=> (OilKmLeft > 250)
            /\ st.kmRemaining = (IF OilKmLeft > 0 THEN OilKmLeft ELSE 0)
            /\ (b.currentOdometerKm = 2400 /\ b.lastOilChangeKm = 0
                    /\ b.oilChangeIntervalKm = 2500)
                 => (st.status = "due_soon" /\ st.kmRemaining = 100)
            /\ (b.currentOdometerKm = 2600 /\ b.lastOilChangeKm = 0
                    /\ b.oilChangeIntervalKm = 2500)
                 => (st.status = "overdue" /\ st.kmRemaining = 0)

\* C19 witness: a bike read exactly on its interval, which is overdue with
\* nothing left
C19_Witness ==
    /\ OilRead
    /\ OilKmLeft = 0
    /\ call.oilChangeStatus.status = "overdue"
    /\ call.oilChangeStatus.kmRemaining = 0

\* C20 as claimed: percentageUsed (in hundredths of a percent) lies in 0..100
\* for every stored bike, one whose last oil change is above its odometer
\* included.
C20_PercentageInRange ==
    OilRead =>
        /\ call.oilChangeStatus.percentageUsed >= 0
        /\ call.oilChangeStatus.percentageUsed <= 100 * 100

\* C21 as claimed: when the processing of a pending alert with retry count r
\* fails, the tick sets retryCount to r + 1 and records lastError; with
\* r + 1 >= 3 the alert becomes failed and keeps its scheduledAt, otherwise it
\* stays pending and is scheduled at the tick's now plus 5^(r + 1) minutes; the
\* alert is not recorded as sent.
C21_FailureStep ==
    [][\A p \in Ticks :
          (tick[p].pc = "catch" /\ tick'[p].pc \notin {"catch", "threw"})
          => LET a == Cur(p).id
                 row == alerts[a]
                 r == row.retryCount
                 new == alerts'[a]
             IN  row.status = "pending"
                 => /\ new.retryCount = r + 1
                    /\ new.lastError # NoError
                    /\ IF r + 1 >= 3
                       THEN new.status = "failed" /\ new.scheduledAt = row.scheduledAt
                       ELSE /\ new.status = "pending"
                            /\ new.scheduledAt = tick[p].now + Pow(5, r + 1)
                    /\ new.sentAt = row.sentAt]_vars

\* C22: a step that turns an alert's status into sent, or changes its sentAt,
\* is the mark-as-sent update of a tick that has created a notification-queue
\* entry for that alert, and it sets sentAt to that tick's now; a new alert
\* starts with sentAt unset.  So an alert that was never sent has no sentAt.
C22_SentOnlyAfterEnqueue ==
    [][\A a \in DOMAIN alerts' :
          IF a \notin AlertIds
          THEN alerts'[a].sentAt = NoDate /\ alerts'[a].status # "sent"
          ELSE (\/ alerts'[a].sentAt # alerts[a].sentAt
                \/ (alerts'[a].status = "sent" /\ alerts[a].status # "sent"))
               => \E p \in Ticks :
                     /\ tick[p].pc = "markSent"
                     /\ tick'[p] # tick[p]
                     /\ Cur(p).id = a
                     /\ a \in tick[p].fired
                     /\ QueueCount(a) >= 1
                     /\ alerts'[a].status = "sent"
                     /\ alerts'[a].sentAt = tick[p].now]_vars

\* C22 witness: one alert was enqueued and marked sent at the time of its tick
\* while another alert, never sent, is pending with no sentAt
C22_Witness ==
    \E a, b \in AlertIds :
        /\ alerts[a].status = "sent"
        /\ alerts[a].sentAt # NoDate
        /\ QueueCount(a) >= 1
        /\ alerts[b].status = "pending"
        /\ alerts[b].sentAt = NoDate

\* position of an alert type on the ladder, and of a priority in the enum
LadderRank(alertType) ==
    CASE alertType = "30_day" -> 1
      [] alertType = "7_day" -> 2
      [] alertType = "1_day" -> 3
      [] alertType = "expired" -> 4

PriorityRank(priority) ==
    CASE priority = "LOW" -> 1
      [] priority = "NORMAL" -> 2
      [] priority = "HIGH" -> 3
      [] priority = "CRITICAL" -> 4

\* C23: every notification-queue row created for an alert has category
\* 'document', status pending, the alert's documentId and alertType, the bikeId
\* of that document, and the priority of its alertType (30_day low, 7_day
\* normal, 1_day high, expired critical); a later rung of the ladder never has
\* a lower priority.
C23_NotificationContent ==
    /\ \A e \in BagToSet(notificationQueue) :
          /\ e.category = "document"
          /\ e.status = "PENDING"
          /\ e.alertId \in AlertIds
          /\ e.documentId = alerts[e.alertId].documentId
          /\ e.bikeId = documents[e.documentId].bikeId
          /\ e.alertType = alerts[e.alertId].alertType
          /\ e.priority = (CASE e.alertType = "30_day" -> "LOW"
                             [] e.alertType = "7_day" -> "NORMAL"
                             [] e.alertType = "1_day" -> "HIGH"
                             [] e.alertType = "expired" -> "CRITICAL")
    /\ \A e, f \in BagToSet(notificationQueue) :
          LadderRank(e.alertType) <= LadderRank(f.alertType)
          => PriorityRank(e.priority) <= PriorityRank(f.priority)

\* C23 witness: the four alerts of a document of bike b2 have all been enqueued
C23_Witness ==
    /\ documents[1].bikeId = "b2"
    /\ \A ty \in {"30_day", "7_day", "1_day", "expired"} :
          \E e \in BagToSet(notificationQueue) :
              e.alertType = ty /\ e.bikeId = "b2" /\ e.documentId = 1

\* C24: the eager tick of startAlertProcessor runs, every firing of the
\* 5-minute schedule is followed by its tick, and a tick that threw is caught
\* (and logged) and is over, so that the tick of the next firing runs.
C24_EveryFiringTicks ==
    /\ [][clock' # clock => (budget'.cron /\ TimeOfDay(clock') % 5 = 0)]_vars
    /\ (budget.startup ~> ~budget.startup)
    /\ (budget.cron ~> ~budget.cron)
    /\ \A p \in Ticks : (tick[p].pc = "threw") ~> (tick[p].pc = "idle")

\* C24 witness: a tick of a later firing is at the first alert of its batch
\* after the batch query of an earlier tick failed and threw (the failing calls
\* are used up and no alert has a failure recorded by a catch block)
C24_Witness ==
    /\ budget.faults = 0
    /\ \A a \in AlertIds : alerts[a].retryCount = 0 /\ alerts[a].lastError = NoError
    /\ \E p \in Ticks : /\ tick[p].pc = "settings"
                        /\ tick[p].idx = 1
                        /\ tick[p].now > 24 * 60

\* tick p is in the loop over its batch
InLoop(p) == tick[p].pc \notin {"idle", "threw"}

C26_BatchProgress ==
    [][\A p \in Ticks :
          (InLoop(p) /\ tick'[p].pc = "idle")
          => \A a \in BatchIds(tick[p]) :
                a \in DOMAIN alerts'
                => \/ alerts'[a].status \in {"sent", "acknowledged", "failed"}
                   \/ alerts'[a].scheduledAt > tick[p].now]_vars

\* C27 as claimed: when an alert is deferred, the time of day of the deferral
\* target is one minute past the window's end (23:59 wraps to 00:00) and the
\* target is outside the window under the containment test itself, for every
\* window the settings endpoint accepts.
C27_TargetOutsideWindow ==
    (call.op = "quiet" /\ call.done /\ call.isQuietTime)
    => /\ TimeOfDay(call.nextTime)
            = (Minutes(call.quietHoursEnd) + 1) % MinutesPerDay
       /\ ~IsQuietTime(call.nextTime, call.quietHoursStart, call.quietHoursEnd)

\* C28 as claimed, for ticks that do not overlap: the alert has
\* 0 <= retryCount <= 3, at most 2 while pending, it is failed exactly when
\* retryCount is 3 (and then lastError is set), and the processing attempts
\* that ended in failure are never more than 3.
C28_RetryBookkeeping ==
    call.op = "attempts"
    => LET row == call.alert
       IN  /\ row.retryCount >= 0 /\ row.retryCount <= 3
           /\ row.status = "pending" => row.retryCount <= 2
           /\ (row.status = "failed") <=> (row.retryCount = 3)
           /\ row.status = "failed" => row.lastError # NoError
           /\ call.failures <= 3

\* C29: the steps of documentService.update.  Its document write changes no
\* alert, and without an expiryDate the request ends there; with an expiryDate,
\* deleteMany removes exactly the pending alerts of that document and leaves
\* every other row as it is, and generateAlerts only adds pending rows of that
\* document.
C29_UpdateFrame ==
    [][\A r \in Reqs :
          LET d == req[r].documentId
          IN  /\ (req[r].pc = "idle" /\ req'[r].pc = "upd_write") => alerts' = alerts
              /\ (req[r].pc = "upd_write" /\ req'[r] # req[r])
                 => /\ alerts' = alerts
                    /\ req[r].expiryDate = NoDate => req'[r].pc = "idle"
              /\ (req[r].pc = "upd_delete" /\ req'[r] # req[r])
                 => /\ req[r].expiryDate # NoDate
                    /\ DOMAIN alerts' \subseteq AlertIds
                    /\ \A a \in AlertIds :
                          IF alerts[a].documentId = d /\ alerts[a].status = "pending"
                          THEN a \notin DOMAIN alerts'
                          ELSE a \in DOMAIN alerts' /\ alerts'[a] = alerts[a]
              /\ (req[r].pc = "upd_gen" /\ req'[r] # req[r])
                 => /\ \A a \in AlertIds : a \in DOMAIN alerts' /\ alerts'[a] = alerts[a]
                    /\ \A a \in DOMAIN alerts' \ AlertIds :
                          /\ alerts'[a].documentId = d
                          /\ alerts'[a].status = "pending"]_vars

\* C29 witness: an update with an expiryDate is over; the document's sent alert
\* is still there, its pending alert of before is gone and new pending alerts
\* have been added
C29_Witness ==
    /\ \A r \in Reqs : req[r].pc = "idle"
    /\ \E a \in AlertIds :
          /\ alerts[a].status = "sent"
          /\ \E gone \in 1..(nextAlertId - 1) :
                gone > a /\ gone \notin AlertIds
          /\ \E b \in AlertIds :
                /\ b > a
                /\ alerts[b].documentId = alerts[a].documentId
                /\ alerts[b].status = "pending"

\* C30 as claimed: at most one of the user's bikes that are not deleted has
\* isPrimary = true, after any sequence of create, update, setPrimary and
\* delete.
C30_AtMostOnePrimary ==
    call.op = "fleet"
    => Cardinality({b \in LiveBikes(call.bikes) : call.bikes[b].isPrimary}) <= 1

====
